---- MODULE Spec2Model ----
(***************************************************************************)
(* The icon generator of tooling/cli/src/icon.rs as a state machine: one   *)
(* run of command() over a small file system.  Paths are sequences of      *)
(* components (<<>> is the root "/"), an Option is a sequence of length 0  *)
(* or 1, and an image is a record of its dimensions and its RGBA8 pixels.  *)
(***************************************************************************)
EXTENDS Integers, Sequences, FiniteSets, TLC

\* ------------------------------------------------------------------ bounds
\* Largest edge length, in pixels, of a source image the model decodes.
MaxDim == 2
\* Longest list of custom sizes given with --png.
MaxSizes == 2

\* --------------------------------------------------------------- constants
\* The size whose ICO layer is handed over already PNG-encoded.
IcoEncodedSize == 256
\* The size of StoreLogo.png.
StoreLogoSize == 50
\* The largest value of a u8 channel.
U8Max == 255

\* ------------------------------------------------------------------- paths
None == <<>>
Some(x) == <<x>>
IsSome(o) == Len(o) = 1
Unwrap(o) == o[1]

\* Path::join with a relative path of one or more components.
Join(dir, rel) == dir \o rel

\* Path::parent: None for the root.
Parent(path) ==
  IF Len(path) = 0 THEN None ELSE Some(SubSeq(path, 1, Len(path) - 1))

\* The path and every ancestor of it, the directories create_dir_all makes.
Ancestors(path) == { SubSeq(path, 1, n) : n \in 0..Len(path) }

RECURSIVE SeqToSet(_)
SeqToSet(s) == IF s = <<>> THEN {} ELSE {Head(s)} \union SeqToSet(Tail(s))

\* ------------------------------------------------------------------ images
Rgba(r, g, b, a) == [r |-> r, g |-> g, b |-> b, a |-> a]

Transparent == Rgba(0, 0, 0, 0)
OpaqueBlue == Rgba(0, 0, U8Max, U8Max)
\* The pixels of the decoded sources: fully transparent or fully opaque.
Palette == <<Transparent, OpaqueBlue>>

Coords(w, h) == (0..(w - 1)) \X (0..(h - 1))

\* ImageBuffer::from_fn(w, h, |_, _| p)
UniformImage(w, h, p) == [w |-> w, h |-> h, px |-> [c \in Coords(w, h) |-> p]]

\* An image whose pixels run through the palette, opaque at (0, 0).
MixedImage(w, h) ==
  [w |-> w, h |-> h,
   px |-> [c \in Coords(w, h) |-> Palette[((c[1] + c[2] + 1) % Len(Palette)) + 1]]]

\* What the decoder can hand back for the input file.
DecodedImages ==
  { UniformImage(w, h, Transparent) : w \in 1..MaxDim, h \in 1..MaxDim }
    \union { MixedImage(w, h) : w \in 1..MaxDim, h \in 1..MaxDim }

\* DynamicImage::resize_exact(size, size, Lanczos3): the resampling itself is
\* kept symbolic, the result records what was resampled and to which size.
ResizeExact(img, size) == [of |-> img, w |-> size, h |-> size, filter |-> "Lanczos3"]

\* Rgba<u8>::blend of fg over bg, channel arithmetic in exact fractions of 255
\* and the final cast truncating.
BlendChannel(bgc, bga, fgc, fga) ==
  (U8Max * fgc * fga + bgc * bga * (U8Max - fga))
    \div (U8Max * fga + U8Max * bga - fga * bga)

Blend(bg, fg) ==
  IF fg.a = 0 THEN bg
  ELSE IF fg.a = U8Max THEN fg
  ELSE IF U8Max * fg.a + U8Max * bg.a - fg.a * bg.a = 0 THEN bg
  ELSE Rgba(BlendChannel(bg.r, bg.a, fg.r, fg.a),
            BlendChannel(bg.g, bg.a, fg.g, fg.a),
            BlendChannel(bg.b, bg.a, fg.b, fg.a),
            (U8Max * fg.a + U8Max * bg.a - fg.a * bg.a) \div U8Max)

\* imageops::overlay(bottom, top, x, y): every pixel of top that falls inside
\* bottom is blended onto it.
Overlay(bottom, top, x, y) ==
  [bottom EXCEPT !.px =
    [c \in Coords(bottom.w, bottom.h) |->
      IF /\ c[1] - x \in 0..(top.w - 1)
         /\ c[2] - y \in 0..(top.h - 1)
      THEN Blend(bottom.px[c], top.px[<<c[1] - x, c[2] - y>>])
      ELSE bottom.px[c]]]

\* The layers the wrong way round: the colour laid over the source.
CompositeColorOnTop(src, color) == Overlay(src, UniformImage(src.w, src.h, color), 0, 0)

\* The iOS background: an image of the source's dimensions filled with the
\* colour, with the source laid over it at (0, 0).
Composite(src, color) == Overlay(UniformImage(src.w, src.h, color), src, 0, 0)

\* ------------------------------------------------------------- CSS colours
HexDigits ==
  [c \in {"0", "1", "2", "3", "4", "5", "6", "7", "8", "9",
          "a", "b", "c", "d", "e", "f", "A", "B", "C", "D", "E", "F"} |->
    CASE c = "0" -> 0 [] c = "1" -> 1 [] c = "2" -> 2 [] c = "3" -> 3
      [] c = "4" -> 4 [] c = "5" -> 5 [] c = "6" -> 6 [] c = "7" -> 7
      [] c = "8" -> 8 [] c = "9" -> 9
      [] c \in {"a", "A"} -> 10 [] c \in {"b", "B"} -> 11
      [] c \in {"c", "C"} -> 12 [] c \in {"d", "D"} -> 13
      [] c \in {"e", "E"} -> 14 [] c \in {"f", "F"} -> 15]

\* One channel of a hex colour, as the u8 that (channel / 255.) * 255. casts to.
Hex1(s, i) == 17 * HexDigits[s[i]]
Hex2(s, i) == 16 * HexDigits[s[i]] + HexDigits[s[i + 1]]

\* css_color::Srgb::from_str on the hex notations, mapped to Rgba<u8>: None
\* when the string does not parse.
ParseIosColor(s) ==
  IF \/ Len(s) \notin {4, 5, 7, 9}
     \/ s[1] # "#"
     \/ \E i \in 2..Len(s) : s[i] \notin DOMAIN HexDigits
  THEN None
  ELSE IF Len(s) = 4 THEN Some(Rgba(Hex1(s, 2), Hex1(s, 3), Hex1(s, 4), U8Max))
  ELSE IF Len(s) = 5 THEN Some(Rgba(Hex1(s, 2), Hex1(s, 3), Hex1(s, 4), Hex1(s, 5)))
  ELSE IF Len(s) = 7 THEN Some(Rgba(Hex2(s, 2), Hex2(s, 4), Hex2(s, 6), U8Max))
  ELSE Some(Rgba(Hex2(s, 2), Hex2(s, 4), Hex2(s, 6), Hex2(s, 8)))

DefaultIosColor == <<"#", "f", "f", "f">>
RedIosColor == <<"#", "F", "F", "0", "0", "0", "0">>
BadIosColor == <<"#", "g", "g", "g">>
IosColorStrings == {DefaultIosColor, RedIosColor, BadIosColor}

\* ---------------------------------------------------------------- catalogs
\* format!("{size}x{size}.png")
SquareName(size) == ToString(size) \o "x" \o ToString(size) \o ".png"

PngEntry(name, size, out_path) == [name |-> name, size |-> size, out_path |-> out_path]

\* The custom entries in reverse order of the request.
CustomEntriesReversed(sizes, out_dir) ==
  [i \in 1..Len(sizes) |->
    PngEntry(SquareName(sizes[Len(sizes) + 1 - i]), sizes[Len(sizes) + 1 - i],
             Join(out_dir, <<SquareName(sizes[Len(sizes) + 1 - i])>>))]

\* command(), custom mode: one PngEntry per requested size, at the output root.
CustomEntries(sizes, out_dir) ==
  [i \in 1..Len(sizes) |->
    PngEntry(SquareName(sizes[i]), sizes[i], Join(out_dir, <<SquareName(sizes[i])>>))]

\* appx(): StoreLogo.png, then the square logos.
AppxSizes == <<30, 44, 71, 89, 107, 142, 150, 284, 310>>
AppxName(size) == "Square" \o ToString(size) \o "x" \o ToString(size) \o "Logo.png"
AppxEntries(out_dir) ==
  <<PngEntry("StoreLogo.png", StoreLogoSize, Join(out_dir, <<"StoreLogo.png">>))>>
    \o [i \in 1..Len(AppxSizes) |->
         PngEntry(AppxName(AppxSizes[i]), AppxSizes[i],
                  Join(out_dir, <<AppxName(AppxSizes[i])>>))]

\* helpers/icns.json: element name -> size and OSType.
IcnsTable ==
  [name \in {"16x16@2x", "32x32", "128x128"} |->
    CASE name = "16x16@2x" -> [size |-> 32, ostype |-> "ic11"]
      [] name = "32x32" -> [size |-> 32, ostype |-> "il32"]
      [] name = "128x128" -> [size |-> 128, ostype |-> "ic07"]]

\* Tables helpers/icns.json could hold instead: an entry whose code is four
\* characters but names no icon type, an entry whose code is not four
\* characters, and an entry whose size is not the size of its type.
IcnsTableUnknownType ==
  [IcnsTable EXCEPT !["128x128"] = [size |-> 128, ostype |-> "icxx"]]
IcnsTableUnparseable ==
  [IcnsTable EXCEPT !["32x32"] = [size |-> 32, ostype |-> "il3"]]
IcnsTableWrongSize ==
  [IcnsTable EXCEPT !["32x32"] = [size |-> 64, ostype |-> "il32"]]
IcnsTables == {IcnsTable, IcnsTableUnknownType, IcnsTableUnparseable, IcnsTableWrongSize}

\* The icon types the icns container knows, with the edge length each holds.
IconTypes ==
  [t \in {"is32", "il32", "ic07", "ic08", "ic09", "ic10", "ic11", "ic12", "ic13", "ic14"} |->
    CASE t = "is32" -> 16 [] t = "il32" -> 32 [] t = "ic07" -> 128
      [] t = "ic08" -> 256 [] t = "ic09" -> 512 [] t = "ic10" -> 1024
      [] t = "ic11" -> 32 [] t = "ic12" -> 64 [] t = "ic13" -> 256
      [] t = "ic14" -> 512]

\* OSType::from_str (entry.ostype.parse()): an error unless the string has
\* four bytes (the caller unwraps it).
FourCharCodes == DOMAIN IconTypes \union {"s8mk", "l8mk", "icxx"}
ParseOstype(ostype) == IF ostype \in FourCharCodes THEN Some(ostype) ELSE None

\* An unknown code taken for the 128-pixel type.
IconTypeFromOstypeOrDefault(ostype) ==
  IF ostype \in DOMAIN IconTypes THEN Some(ostype) ELSE Some("ic07")

\* IconType::from_ostype: None for a code that names no icon type (the
\* caller unwraps it).
IconTypeFromOstype(ostype) == IF ostype \in DOMAIN IconTypes THEN Some(ostype) ELSE None

\* IconType::mask_type: the 24-bit types keep their alpha in a mask element.
IconMaskType(t) ==
  IF t = "is32" THEN Some("s8mk")
  ELSE IF t = "il32" THEN Some("l8mk")
  ELSE None

\* ico(): the layers, in the order they are pushed.
IcoSizes == <<32, 16, 24, 48, 64, 256>>

\* ico(): the frame of one layer.  The largest layer is encoded by write_png
\* and handed over with IcoFrame::with_encoded; every other layer is encoded
\* by IcoFrame::as_png.  Either way the frame holds a PNG stream.
IcoFrameFor(source, size) ==
  IF size = IcoEncodedSize
  THEN [encoding |-> "png", by |-> "write_png", w |-> size, h |-> size,
        image |-> ResizeExact(source, size)]
  ELSE [encoding |-> "png", by |-> "IcoFrame::as_png", w |-> size, h |-> size,
        image |-> ResizeExact(source, size)]

\* png(), desktop_entries.
DesktopSizes == <<32, 128, 256, 512>>
DesktopName(size) ==
  IF size = 256 THEN "128x128@2x.png"
  ELSE IF size = 512 THEN "icon.png"
  ELSE SquareName(size)
desktop_entries(out_dir) ==
  [i \in 1..Len(DesktopSizes) |->
    PngEntry(DesktopName(DesktopSizes[i]), DesktopSizes[i],
             Join(out_dir, <<DesktopName(DesktopSizes[i])>>))]

\* png(), android_entries: the density buckets.
AndroidTargets ==
  << [name |-> "hdpi", size |-> 49, foreground_size |-> 162],
     [name |-> "mdpi", size |-> 48, foreground_size |-> 108],
     [name |-> "xhdpi", size |-> 96, foreground_size |-> 216],
     [name |-> "xxhdpi", size |-> 144, foreground_size |-> 324],
     [name |-> "xxxhdpi", size |-> 192, foreground_size |-> 432] >>

AndroidFolderName(target) == "mipmap-" \o target.name

\* The three entries of one bucket, the foreground at the launcher's size.
AndroidEntriesSameSize(target, out_dir) ==
  << PngEntry(AndroidFolderName(target) \o "/ic_launcher_foreground.png",
              target.size,
              Join(out_dir, <<AndroidFolderName(target), "ic_launcher_foreground.png">>)),
     PngEntry(AndroidFolderName(target) \o "/ic_launcher_round.png",
              target.size,
              Join(out_dir, <<AndroidFolderName(target), "ic_launcher_round.png">>)),
     PngEntry(AndroidFolderName(target) \o "/ic_launcher.png",
              target.size,
              Join(out_dir, <<AndroidFolderName(target), "ic_launcher.png">>)) >>

\* The three entries android_entries pushes for one bucket.
AndroidEntriesOf(target, out_dir) ==
  << PngEntry(AndroidFolderName(target) \o "/ic_launcher_foreground.png",
              target.foreground_size,
              Join(out_dir, <<AndroidFolderName(target), "ic_launcher_foreground.png">>)),
     PngEntry(AndroidFolderName(target) \o "/ic_launcher_round.png",
              target.size,
              Join(out_dir, <<AndroidFolderName(target), "ic_launcher_round.png">>)),
     PngEntry(AndroidFolderName(target) \o "/ic_launcher.png",
              target.size,
              Join(out_dir, <<AndroidFolderName(target), "ic_launcher.png">>)) >>

\* png(), ios_entries: point sizes are kept in half points (83.5 is 167), the
\* products are exact in f32 and the cast to u32 truncates.
IosTargets ==
  << [size2 |-> 40, multipliers |-> <<1, 2, 3>>, has_extra |-> TRUE],
     [size2 |-> 58, multipliers |-> <<1, 2, 3>>, has_extra |-> TRUE],
     [size2 |-> 80, multipliers |-> <<1, 2, 3>>, has_extra |-> TRUE],
     [size2 |-> 120, multipliers |-> <<2, 3>>, has_extra |-> FALSE],
     [size2 |-> 152, multipliers |-> <<1, 2>>, has_extra |-> FALSE],
     [size2 |-> 167, multipliers |-> <<2>>, has_extra |-> FALSE],
     [size2 |-> 1024, multipliers |-> <<2>>, has_extra |-> FALSE] >>

\* The point size truncated before it is multiplied.
IosPixelSizeTruncatedFirst(size2, multiplier) == (size2 \div 2) * multiplier

\* (target.size * multiplier as f32) as u32
IosPixelSize(size2, multiplier) == (size2 * multiplier) \div 2

\* Display of an f32: no fraction digits for a whole number.
F32ToString(size2) ==
  IF size2 % 2 = 0 THEN ToString(size2 \div 2) ELSE ToString(size2 \div 2) \o ".5"

IosSizeStr(target) ==
  IF target.size2 = 1024 THEN "512"
  ELSE F32ToString(target.size2) \o "x" \o F32ToString(target.size2)

IosExtraName(target) == "AppIcon-" \o IosSizeStr(target) \o "@2x-1.png"
IosName(target, multiplier) ==
  "AppIcon-" \o IosSizeStr(target) \o "@" \o ToString(multiplier) \o "x.png"

\* The entries ios_entries pushes for one point size: the extra variant
\* first, then one entry per multiplier.
IosEntriesOf(target, out_dir) ==
  (IF target.has_extra
   THEN <<PngEntry(IosExtraName(target), IosPixelSize(target.size2, 2),
                   Join(out_dir, <<IosExtraName(target)>>))>>
   ELSE <<>>)
    \o [i \in 1..Len(target.multipliers) |->
         PngEntry(IosName(target, target.multipliers[i]),
                  IosPixelSize(target.size2, target.multipliers[i]),
                  Join(out_dir, <<IosName(target, target.multipliers[i])>>))]

RECURSIVE IosEntriesFrom(_, _)
IosEntriesFrom(k, out_dir) ==
  IF k > Len(IosTargets) THEN <<>>
  ELSE IosEntriesOf(IosTargets[k], out_dir) \o IosEntriesFrom(k + 1, out_dir)

ios_entries(out_dir) == IosEntriesFrom(1, out_dir)

\* ------------------------------------------------------------------- state
VARIABLES
  options,         \* Options: input, output, png, ios_color
  icns_table,      \* helpers/icns.json as it was built into the program
  start,           \* the file system the run started in
  phase,           \* 1 in the first run of the program, 2 in a second run
  first,           \* what the first run left, once a second run has begun
  lookups,         \* every get_tauri_config called, in order
  normalize_arg,   \* path endpoint: the string normalize is called with
  normalize_ret,   \* path endpoint: what normalize returned, once it has
  store,           \* http endpoint: the ClientStore, id -> client
  built,           \* http endpoint: how many clients were built so far
  issued,          \* http endpoint: the ids handed out and not yet dropped
  requests,        \* http endpoint: the requests waiting for their response
  reply,           \* http endpoint: the last command and what it returned
  pc,              \* where command() stands
  idx,             \* the loop counter of the loop command() is in
  result,          \* "running", then "Ok", "Err" or "Panic"
  context,         \* the context chain of the error, outermost first
  ios_color,       \* command(): the parsed colour
  source,          \* command(): the decoded source, once open() returned
  image,           \* png(): the composited image, once built
  entries,         \* png(): the desktop and Android entries
  todo,            \* icns(): the table entries not yet iterated over
  family,          \* icns(): the elements of the IconFamily
  frames,          \* ico(): the frames pushed so far
  android_out,     \* png(): the resolved Android root
  ios_out,         \* png(): the resolved iOS root
  dirs,            \* file system: the directories
  files,           \* file system: the regular files, path -> content
  writes,          \* every File::create attempted, in order
  mkdirs           \* every create_dir_all called, in order

ctl == <<pc, idx, result, context>>
loc == <<ios_color, source, image, entries, todo, family, frames, android_out, ios_out>>
fsv == <<dirs, files>>
hist == <<writes, mkdirs>>
pathv == <<normalize_arg, normalize_ret>>
httpv == <<store, built, issued, requests, reply>>
given == <<options, icns_table, start, phase, first, pathv, httpv>>
fixed == <<given, lookups>>
vars == <<fixed, ctl, loc, fsv, hist>>

\* The project the command runs in.
ProjectDir == <<"proj">>
IconsDir == Join(ProjectDir, <<"icons">>)
RootDir == <<>>
AppNameSnake == "app"

\* png(): the generated Android resource directory next to the icons.
AndroidGenDir(parent) ==
  Join(parent, <<"gen", "android", AppNameSnake, "app", "src", "main", "res">>)
\* png(): the generated iOS asset catalog next to the icons.
IosGenDir(parent) ==
  Join(parent, <<"gen", "apple", "Assets.xcassets", "AppIcon.appiconset">>)

\* What a generated path is when the run starts.
GenStates == {"absent", "dir", "file"}

\* The file systems a run can start in: the output root with its project
\* around it, or the root directory itself as the output root.
Worlds ==
  { [out_dir |-> IconsDir, android |-> a, ios |-> i] : a \in GenStates, i \in GenStates }
    \union { [out_dir |-> RootDir, android |-> "absent", ios |-> "absent"] }

OtherFile == [fmt |-> "other", body |-> <<>>, complete |-> TRUE]

GenDirsOf(path, state) ==
  IF state = "dir" THEN Ancestors(path)
  ELSE IF state = "file" THEN Ancestors(Unwrap(Parent(path)))
  ELSE {}

WorldDirs(w) ==
  IF w.out_dir = RootDir THEN {RootDir}
  ELSE Ancestors(ProjectDir)
         \union GenDirsOf(AndroidGenDir(ProjectDir), w.android)
         \union GenDirsOf(IosGenDir(ProjectDir), w.ios)

WorldFiles(w) ==
  [p \in (IF w.android = "file" THEN {AndroidGenDir(ProjectDir)} ELSE {})
           \union (IF w.ios = "file" THEN {IosGenDir(ProjectDir)} ELSE {}) |-> OtherFile]

\* The sizes a --png list is drawn from.
CustomSizes == {16, 64}
SizeLists == UNION { [1..n -> CustomSizes] : n \in 0..MaxSizes }

\* options.png: None, or Some(list).
PngOptions == {None} \union { Some(l) : l \in SizeLists }

\* options.input: what open() makes of the file, None when it cannot be
\* read or decoded.
Inputs == {None} \union { Some(i) : i \in DecodedImages }

\* -------------------------------------------------------------- file system
\* Path::exists
Exists(path) == path \in dirs \/ path \in DOMAIN files

IsDir(path) == path \in dirs

\* create_dir_all can succeed only if no component of the path is a file.
CanCreateDirAll(path) == Ancestors(path) \cap DOMAIN files = {}

\* The outcomes of create_dir_all(path): the directories after it, or an
\* error that leaves them as they were.
DirOutcomes(path) == IF CanCreateDirAll(path) THEN {TRUE, FALSE} ELSE {FALSE}

DirsAfter(path, ok) == IF ok THEN dirs \union Ancestors(path) ELSE dirs

\* File::create can succeed only in an existing directory, on a path that is
\* not itself a directory.
CanCreateFile(path) ==
  /\ IsSome(Parent(path))
  /\ IsDir(Unwrap(Parent(path)))
  /\ ~IsDir(path)

\* The outcomes of creating and writing one file: File::create fails, or the
\* write of the data fails, or the flush after it fails, or all of it
\* succeeds.
WriteOutcomes(path) ==
  IF CanCreateFile(path) THEN {"ok", "create_err", "write_err", "flush_err"}
  ELSE {"create_err"}

\* The buffered writer released without a call of flush.
HandleOpsWithoutFlush(outcome) ==
  IF outcome = "create_err" THEN <<>> ELSE <<"write", "drop">>

\* What is done to the buffered writer of one file, in order: nothing when
\* File::create failed (there is no handle); the write, whose failure leaves
\* the function through `?` and drops the writer; else the write, the call of
\* flush, and the drop at the end of the function.
HandleOps(outcome) ==
  CASE outcome = "create_err" -> <<>>
    [] outcome = "write_err" -> <<"write", "drop">>
    [] OTHER -> <<"write", "flush", "drop">>

\* The files after one write: nothing new when File::create failed, else the
\* file with its content, complete only when write and flush succeeded.
FilesAfter(path, fmt, body, outcome) ==
  IF outcome = "create_err" THEN files
  ELSE [q \in DOMAIN files \union {path} |->
         IF q = path THEN [fmt |-> fmt, body |-> body, complete |-> outcome = "ok"]
         ELSE files[q]]

WriteRecord(path, stage, outcome) ==
  [path |-> path, stage |-> stage, outcome |-> outcome,
   handle |-> HandleOps(outcome),
   parent_is_dir |-> IsSome(Parent(path)) /\ IsDir(Unwrap(Parent(path)))]

\* resize_and_save_png(src, size, path) with the given outcome.
ResizeAndSavePng(src, size, path, stage, outcome) ==
  /\ files' = FilesAfter(path, "png", <<ResizeExact(src, size)>>, outcome)
  /\ writes' = Append(writes, WriteRecord(path, stage, outcome))

\* ----------------------------------------------------------------- control
Goto(next, i) ==
  /\ pc' = next
  /\ idx' = i
  /\ UNCHANGED <<result, context>>

Return(res, ctx) ==
  /\ pc' = "done"
  /\ idx' = 0
  /\ result' = res
  /\ context' = ctx

\* The path endpoint and the http endpoint before any command reached them.
PathIdle ==
  /\ normalize_arg = <<>>
  /\ normalize_ret = None

HttpIdle ==
  /\ store = <<>>
  /\ built = 0
  /\ issued = {}
  /\ requests = {}
  /\ reply = None

InitOf(worlds, inputs, pngs, tables) ==
  /\ \E w \in worlds, input \in inputs, png \in pngs, color \in IosColorStrings :
       /\ options = [input |-> input, output |-> w.out_dir, png |-> png, ios_color |-> color]
       /\ dirs = WorldDirs(w)
       /\ files = WorldFiles(w)
       /\ start = [dirs |-> WorldDirs(w), files |-> WorldFiles(w)]
  /\ icns_table \in tables
  /\ phase = 1
  /\ first = None
  /\ lookups = <<>>
  /\ PathIdle
  /\ HttpIdle
  /\ pc = "parse_color"
  /\ idx = 0
  /\ result = "running"
  /\ context = <<>>
  /\ ios_color = None
  /\ source = None
  /\ image = None
  /\ entries = <<>>
  /\ todo = {}
  /\ family = <<>>
  /\ frames = <<>>
  /\ android_out = None
  /\ ios_out = None
  /\ writes = <<>>
  /\ mkdirs = <<>>

\* The program as built, with the table of helpers/icns.json.
Init == InitOf(Worlds, Inputs, PngOptions, {IcnsTable})

\* The program built with any of the tables.
InitIcnsTables == InitOf(Worlds, Inputs, PngOptions, IcnsTables)

\* command(): the locals derived from the options.
out_dir == options.output
png_icon_sizes == IF IsSome(options.png) THEN Unwrap(options.png) ELSE <<>>

\* Lines 93-95, 110-113 and 400-406: the image the custom loop, appx, icns, ico
\* and the desktop and Android loop of png resample is the decoded source.
PlainImageComposited == Composite(Unwrap(source), Unwrap(ios_color))

PlainImage == Unwrap(source)

\* Lines 408-415: the iOS loop resamples the composited image.
IosImageUncomposited == Unwrap(source)

IosImage == Unwrap(image)

\* ----------------------------------------------------------------- command
\* Lines 69-78: the colour is parsed before anything is touched.
ParseColor ==
  /\ pc = "parse_color"
  /\ IF IsSome(ParseIosColor(options.ios_color))
     THEN /\ ios_color' = ParseIosColor(options.ios_color)
          /\ Goto("create_out_dir", 0)
     ELSE /\ Return("Err", <<"failed to parse iOS color">>)
          /\ UNCHANGED ios_color
  /\ UNCHANGED <<fixed, source, image, entries, todo, family, frames,
                 android_out, ios_out, fsv, hist>>

\* Line 80: create_dir_all(&out_dir).
CreateOutDir ==
  /\ pc = "create_out_dir"
  /\ \E ok \in DirOutcomes(out_dir) :
       /\ dirs' = DirsAfter(out_dir, ok)
       /\ mkdirs' = Append(mkdirs, [path |-> out_dir, ok |-> ok])
       /\ IF ok THEN Goto("open", 0)
          ELSE Return("Err", <<"Can't create output directory">>)
  /\ UNCHANGED <<fixed, loc, files, writes>>

\* Lines 82-86: open(input) and the conversion to RGBA8.
OpenSource ==
  /\ pc = "open"
  /\ IF IsSome(options.input)
     THEN /\ source' = options.input
          /\ Goto("check_square", 0)
     ELSE /\ Return("Err", <<"Can't read and decode source image">>)
          /\ UNCHANGED source
  /\ UNCHANGED <<fixed, ios_color, image, entries, todo, family, frames,
                 android_out, ios_out, fsv, hist>>

\* The square test left out.
IsSquareUnchecked(img) == TRUE

\* The test of line 88.
IsSquare(img) == img.h = img.w

\* Lines 88-92: the panic on a source that is not square, then the choice of
\* the mode.
CheckSquare ==
  /\ pc = "check_square"
  /\ IF ~IsSquare(Unwrap(source))
     THEN Return("Panic", <<"Source image must be square">>)
     ELSE IF png_icon_sizes = <<>> THEN Goto("appx", 1) ELSE Goto("custom", 1)
  /\ UNCHANGED <<fixed, loc, fsv, hist>>

\* Lines 99-114: one turn of the loop over the custom sizes.
CustomWrite ==
  /\ pc = "custom"
  /\ LET target == CustomEntries(png_icon_sizes, out_dir)[idx] IN
       \E outcome \in WriteOutcomes(target.out_path) :
         /\ ResizeAndSavePng(PlainImage, target.size, target.out_path, "custom", outcome)
         /\ IF outcome # "ok" THEN Return("Err", <<>>)
            ELSE IF idx = Len(png_icon_sizes) THEN Goto("return_ok", 0)
            ELSE Goto("custom", idx + 1)
  /\ UNCHANGED <<fixed, loc, dirs, mkdirs>>

\* Lines 120-132 and 93: one write of appx().
AppxWrite ==
  /\ pc = "appx"
  /\ LET target == AppxEntries(out_dir)[idx] IN
       \E outcome \in WriteOutcomes(target.out_path) :
         /\ ResizeAndSavePng(PlainImage, target.size, target.out_path, "appx", outcome)
         /\ IF outcome # "ok" THEN Return("Err", <<"Failed to generate appx icons">>)
            ELSE IF idx = Len(AppxEntries(out_dir)) THEN Goto("icns", 0)
            ELSE Goto("appx", idx + 1)
  /\ UNCHANGED <<fixed, loc, dirs, mkdirs>>

\* Lines 137-140: the table is read and the family is empty.
IcnsStart ==
  /\ pc = "icns"
  /\ todo' = DOMAIN icns_table
  /\ family' = <<>>
  /\ Goto("icns_add", 0)
  /\ UNCHANGED <<fixed, ios_color, source, image, entries, frames,
                 android_out, ios_out, fsv, hist>>

\* The element tagged with the type that fits its size, whatever the
\* entry's own code.
IcnsElementBySize(src, entry) ==
  [ostype |-> IF entry.size = 32 THEN "il32" ELSE entry.ostype,
   image |-> ResizeExact(src, entry.size)]

\* The element of one table entry: the source resampled to the entry's size,
\* tagged with the entry's type.
IcnsElement(src, entry) ==
  [ostype |-> Unwrap(IconTypeFromOstype(entry.ostype)),
   image |-> ResizeExact(src, entry.size)]

\* IconFamily::add_icon_with_type: the element is pushed, and after it the
\* mask element when the type has a mask type.
AddIconWithType(fam, element) ==
  Append(fam, element)
    \o (IF IsSome(IconMaskType(element.ostype))
        THEN <<[element EXCEPT !.ostype = Unwrap(IconMaskType(element.ostype))]>>
        ELSE <<>>)

\* Lines 142-158: one turn of the loop over the table, which a HashMap hands
\* out in any order.
IcnsAdd ==
  /\ pc = "icns_add"
  /\ todo # {}
  /\ \E name \in todo :
       LET entry == icns_table[name] IN
         IF ~IsSome(ParseOstype(entry.ostype))
         THEN /\ Return("Panic", <<"called Result::unwrap() on an Err value">>)
              /\ UNCHANGED <<todo, family>>
         ELSE IF ~IsSome(IconTypeFromOstype(entry.ostype))
         THEN /\ Return("Panic", <<"called Option::unwrap() on a None value">>)
              /\ UNCHANGED <<todo, family>>
         ELSE IF IconTypes[Unwrap(IconTypeFromOstype(entry.ostype))] # entry.size
         THEN /\ Return("Err", <<"Failed to generate .icns file",
                                 "Can't add " \o name \o " to Icns Family">>)
              /\ UNCHANGED <<todo, family>>
         ELSE /\ family' = AddIconWithType(family, IcnsElement(PlainImage, entry))
              /\ todo' = todo \ {name}
              /\ Goto("icns_add", 0)
  /\ UNCHANGED <<fixed, ios_color, source, image, entries, frames,
                 android_out, ios_out, fsv, hist>>

\* Lines 160-164: icon.icns is created, written and flushed.
IcnsWrite ==
  /\ pc = "icns_add"
  /\ todo = {}
  /\ LET path == Join(out_dir, <<"icon.icns">>) IN
       \E outcome \in WriteOutcomes(path) :
         /\ files' = FilesAfter(path, "icns", family, outcome)
         /\ writes' = Append(writes, WriteRecord(path, "icns", outcome))
         /\ IF outcome # "ok" THEN Return("Err", <<"Failed to generate .icns file">>)
            ELSE Goto("ico", 1)
  /\ UNCHANGED <<fixed, loc, dirs, mkdirs>>

\* Lines 173-191: one turn of the loop over the layers.
IcoFrame ==
  /\ pc = "ico"
  /\ idx <= Len(IcoSizes)
  /\ frames' = Append(frames, IcoFrameFor(PlainImage, IcoSizes[idx]))
  /\ Goto("ico", idx + 1)
  /\ UNCHANGED <<fixed, ios_color, source, image, entries, todo, family,
                 android_out, ios_out, fsv, hist>>

\* Lines 193-198: icon.ico is created, the frames encoded and flushed.
IcoWrite ==
  /\ pc = "ico"
  /\ idx > Len(IcoSizes)
  /\ LET path == Join(out_dir, <<"icon.ico">>) IN
       \E outcome \in WriteOutcomes(path) :
         /\ files' = FilesAfter(path, "ico", frames, outcome)
         /\ writes' = Append(writes, WriteRecord(path, "ico", outcome))
         /\ IF outcome # "ok" THEN Return("Err", <<"Failed to generate .ico file">>)
            ELSE Goto("png", 0)
  /\ UNCHANGED <<fixed, loc, dirs, mkdirs>>

\* --------------------------------------------------------------------- png
PngContext == "Failed to generate png icons"

\* Lines 361-374: the desktop entries, then the project configuration, whose
\* lookup can fail.
PngConfig ==
  /\ pc = "png"
  /\ entries' = desktop_entries(out_dir)
  /\ \E ok \in BOOLEAN :
       /\ lookups' = Append(lookups, [ok |-> ok])
       /\ IF ok THEN Goto("png_android_root", 0) ELSE Return("Err", <<PngContext>>)
  /\ UNCHANGED <<given, ios_color, source, image, todo, family, frames,
                 android_out, ios_out, fsv, hist>>

\* The root chosen for a platform: the generated directory when the path
\* exists, else the subdirectory of the output root.
ResolveRoot(gen, fallback) == IF Exists(gen) THEN gen ELSE fallback

\* Lines 375-385: the Android root; out_dir.parent() is unwrapped.
PngAndroidRoot ==
  /\ pc = "png_android_root"
  /\ IF ~IsSome(Parent(out_dir))
     THEN /\ Return("Panic", <<"called Option::unwrap() on a None value">>)
          /\ UNCHANGED <<android_out, dirs, mkdirs>>
     ELSE LET gen == AndroidGenDir(Unwrap(Parent(out_dir)))
              out == ResolveRoot(gen, Join(out_dir, <<"android">>))
          IN IF out = gen
             THEN /\ android_out' = Some(out)
                  /\ Goto("png_android_entries", 1)
                  /\ UNCHANGED <<dirs, mkdirs>>
             ELSE \E ok \in DirOutcomes(out) :
                    /\ dirs' = DirsAfter(out, ok)
                    /\ mkdirs' = Append(mkdirs, [path |-> out, ok |-> ok])
                    /\ IF ok
                       THEN /\ android_out' = Some(out)
                            /\ Goto("png_android_entries", 1)
                       ELSE /\ Return("Err", <<PngContext, "Can't create Android output directory">>)
                            /\ UNCHANGED android_out
  /\ UNCHANGED <<fixed, ios_color, source, image, entries, todo, family, frames,
                 ios_out, files, writes>>

\* The new entries put in front of the list.
ExtendEntriesInFront(list, more) == more \o list

\* Vec::extend of line 386.
ExtendEntries(list, more) == list \o more

\* Lines 261-282 and 386: one turn of the loop of android_entries, which
\* creates the bucket's directory and pushes its three entries.
PngAndroidEntries ==
  /\ pc = "png_android_entries"
  /\ LET target == AndroidTargets[idx]
         out_folder == Join(Unwrap(android_out), <<AndroidFolderName(target)>>)
     IN \E ok \in DirOutcomes(out_folder) :
          /\ dirs' = DirsAfter(out_folder, ok)
          /\ mkdirs' = Append(mkdirs, [path |-> out_folder, ok |-> ok])
          /\ IF ~ok
             THEN /\ Return("Err", <<PngContext, "Can't create Android mipmap output directory">>)
                  /\ UNCHANGED entries
             ELSE /\ entries' = ExtendEntries(entries, AndroidEntriesOf(target, Unwrap(android_out)))
                  /\ IF idx = Len(AndroidTargets) THEN Goto("png_ios_root", 0)
                     ELSE Goto("png_android_entries", idx + 1)
  /\ UNCHANGED <<fixed, ios_color, source, image, todo, family, frames,
                 android_out, ios_out, files, writes>>

\* Lines 388-398: the iOS root.
PngIosRoot ==
  /\ pc = "png_ios_root"
  /\ LET gen == IosGenDir(Unwrap(Parent(out_dir)))
         out == ResolveRoot(gen, Join(out_dir, <<"ios">>))
     IN IF out = gen
        THEN /\ ios_out' = Some(out)
             /\ Goto("png_write", 1)
             /\ UNCHANGED <<dirs, mkdirs>>
        ELSE \E ok \in DirOutcomes(out) :
               /\ dirs' = DirsAfter(out, ok)
               /\ mkdirs' = Append(mkdirs, [path |-> out, ok |-> ok])
               /\ IF ok
                  THEN /\ ios_out' = Some(out)
                       /\ Goto("png_write", 1)
                  ELSE /\ Return("Err", <<PngContext, "Can't create iOS output directory">>)
                       /\ UNCHANGED ios_out
  /\ UNCHANGED <<fixed, ios_color, source, image, entries, todo, family, frames,
                 android_out, files, writes>>

\* Lines 400-403: one turn of the loop over the desktop and Android entries.
PngWrite ==
  /\ pc = "png_write"
  /\ LET entry == entries[idx] IN
       \E outcome \in WriteOutcomes(entry.out_path) :
         /\ ResizeAndSavePng(PlainImage, entry.size, entry.out_path, "png", outcome)
         /\ IF outcome # "ok" THEN Return("Err", <<PngContext>>)
            ELSE IF idx = Len(entries) THEN Goto("png_composite", 0)
            ELSE Goto("png_write", idx + 1)
  /\ UNCHANGED <<fixed, loc, dirs, mkdirs>>

\* Lines 405-410: the source laid over the background colour.
PngComposite ==
  /\ pc = "png_composite"
  /\ image' = Some(Composite(Unwrap(source), Unwrap(ios_color)))
  /\ Goto("png_ios_write", 1)
  /\ UNCHANGED <<fixed, ios_color, source, entries, todo, family, frames,
                 android_out, ios_out, fsv, hist>>

\* Lines 412-415: one turn of the loop over the iOS entries.
IosWrite ==
  /\ pc = "png_ios_write"
  /\ LET entry == ios_entries(Unwrap(ios_out))[idx] IN
       \E outcome \in WriteOutcomes(entry.out_path) :
         /\ ResizeAndSavePng(IosImage, entry.size, entry.out_path, "ios", outcome)
         /\ IF outcome # "ok" THEN Return("Err", <<PngContext>>)
            ELSE IF idx = Len(ios_entries(Unwrap(ios_out))) THEN Goto("return_ok", 0)
            ELSE Goto("png_ios_write", idx + 1)
  /\ UNCHANGED <<fixed, loc, dirs, mkdirs>>

\* Line 117: Ok(()).
ReturnOk ==
  /\ pc = "return_ok"
  /\ Return("Ok", <<>>)
  /\ UNCHANGED <<fixed, loc, fsv, hist>>

Next ==
  \/ ParseColor
  \/ CreateOutDir
  \/ OpenSource
  \/ CheckSquare
  \/ CustomWrite
  \/ AppxWrite
  \/ IcnsStart
  \/ IcnsAdd
  \/ IcnsWrite
  \/ IcoFrame
  \/ IcoWrite
  \/ PngConfig
  \/ PngAndroidRoot
  \/ PngAndroidEntries
  \/ PngIosRoot
  \/ PngWrite
  \/ PngComposite
  \/ IosWrite
  \/ ReturnOk

Spec == Init /\ [][Next]_vars

\* The same program built with each of the tables.
SpecIcnsTables == InitIcnsTables /\ [][Next]_vars

\* ---------------------------------------------------------------- two runs
\* Two runs of command() that differ in --ios-color only: the second run
\* starts in the file system the first run started in, with the same input,
\* output root and --png list, and meets the same environment.
TwoRunsWorlds == {[out_dir |-> IconsDir, android |-> "absent", ios |-> "absent"]}
TwoRunsInputs == {Some(UniformImage(1, 1, Transparent))}
TwoRunsPngOptions == {None, Some(<<16>>)}

InitTwoRuns == InitOf(TwoRunsWorlds, TwoRunsInputs, TwoRunsPngOptions, {IcnsTable})

\* What a finished run left.
RunRecord ==
  [options |-> options, result |-> result, context |-> context, files |-> files,
   writes |-> writes, mkdirs |-> mkdirs, lookups |-> lookups, family |-> family]

Shorter(a, b) == IF Len(a) <= Len(b) THEN Len(a) ELSE Len(b)

\* The environment answers the second run as it answered the first: the
\* same outcome for the same file, directory and configuration lookup at the
\* same place of the run, and the same iteration order of the table.
SameEnvironment ==
  LET f == Unwrap(first) IN
    /\ \A i \in 1..Shorter(writes, f.writes) :
         writes[i].path = f.writes[i].path => writes[i].outcome = f.writes[i].outcome
    /\ \A i \in 1..Shorter(mkdirs, f.mkdirs) :
         mkdirs[i].path = f.mkdirs[i].path => mkdirs[i].ok = f.mkdirs[i].ok
    /\ \A i \in 1..Shorter(lookups, f.lookups) : lookups[i] = f.lookups[i]
    /\ \A i \in 1..Shorter(family, f.family) : family[i].ostype = f.family[i].ostype

\* One step of command(), in the second run under the environment of the
\* first.
RunStep == Next /\ (phase = 2 => SameEnvironment')

\* The first run is over and the program is started again with another
\* --ios-color.
Restart ==
  /\ pc = "done"
  /\ phase = 1
  /\ \E color \in IosColorStrings \ {options.ios_color} :
       options' = [options EXCEPT !.ios_color = color]
  /\ first' = Some(RunRecord)
  /\ phase' = 2
  /\ dirs' = start.dirs
  /\ files' = start.files
  /\ pc' = "parse_color"
  /\ idx' = 0
  /\ result' = "running"
  /\ context' = <<>>
  /\ ios_color' = None
  /\ source' = None
  /\ image' = None
  /\ entries' = <<>>
  /\ todo' = {}
  /\ family' = <<>>
  /\ frames' = <<>>
  /\ android_out' = None
  /\ ios_out' = None
  /\ writes' = <<>>
  /\ mkdirs' = <<>>
  /\ lookups' = <<>>
  /\ UNCHANGED <<icns_table, start, pathv, httpv>>

NextTwoRuns ==
  \/ RunStep
  \/ Restart

SpecTwoRuns == InitTwoRuns /\ [][NextTwoRuns]_vars

\* ------------------------------------------------------------ path endpoint
\* The longest string normalize is called with.
MaxPathLen == 4

\* MAIN_SEPARATOR, on a Unix build.
MainSeparator == "/"

\* Strings are sequences of characters: the separator, the backslash (an
\* ordinary character of a name on Unix), the dot and a letter.
PathChars == {"/", "\\", ".", "a"}
PathStrings == UNION { [1..n -> PathChars] : n \in 0..MaxPathLen }

\* str::ends_with(char)
EndsWith(s, c) == Len(s) > 0 /\ s[Len(s)] = c

\* The pieces of a string between its separators.
RECURSIVE Segments(_)
Segments(s) ==
  IF \A k \in 1..Len(s) : s[k] # MainSeparator THEN <<s>>
  ELSE LET k == CHOOSE i \in 1..Len(s) :
                  s[i] = MainSeparator /\ \A j \in 1..(i - 1) : s[j] # MainSeparator
       IN <<SubSeq(s, 1, k - 1)>> \o Segments(SubSeq(s, k + 1, Len(s)))

IsNamed(seg) == seg # <<>> /\ seg # <<".">>

ComponentOf(seg) ==
  IF seg = <<".", ".">> THEN [kind |-> "ParentDir", name |-> seg]
  ELSE [kind |-> "Normal", name |-> seg]

\* Path::components() on Unix: RootDir for a leading separator, CurDir for a
\* leading "." of a relative path; empty pieces and every other "." are left
\* out, ".." is ParentDir and anything else a Normal component.
Components(s) ==
  LET segs == Segments(s)
      kept == SelectSeq(segs, IsNamed)
      lead == IF Len(s) > 0 /\ s[1] = MainSeparator
              THEN <<[kind |-> "RootDir", name |-> <<MainSeparator>>]>>
              ELSE IF segs[1] = <<".">> THEN <<[kind |-> "CurDir", name |-> <<".">>]>>
              ELSE <<>>
  IN lead \o [i \in 1..Len(kept) |-> ComponentOf(kept[i])]

\* PathBuf::pop: the path is cut back to its parent; the root and the empty
\* path have none and stay as they are.
PathBufPop(ret) ==
  IF ret = <<>> \/ ret = <<MainSeparator>> THEN ret
  ELSE IF \A k \in 1..Len(ret) : ret[k] # MainSeparator THEN <<>>
  ELSE LET k == CHOOSE i \in 1..Len(ret) :
                  ret[i] = MainSeparator /\ \A j \in (i + 1)..Len(ret) : ret[j] # MainSeparator
       IN IF k = 1 THEN <<MainSeparator>> ELSE SubSeq(ret, 1, k - 1)

\* Lines 225-247: the loop of normalize_path_no_absolute over the components.
RECURSIVE NormalizeComponents(_, _)
NormalizeComponents(ret, comps) ==
  IF comps = <<>> THEN ret
  ELSE LET c == Head(comps)
           next ==
             CASE c.kind = "RootDir" -> c.name
               [] c.kind = "CurDir" -> ret
               [] c.kind = "ParentDir" -> PathBufPop(ret)
               [] OTHER ->
                    (IF ret # <<>> /\ ~EndsWith(ret, "/") /\ ~EndsWith(ret, "\\")
                     THEN Append(ret, MainSeparator) ELSE ret) \o c.name
       IN NormalizeComponents(next, Tail(comps))

\* Lines 212-250; a Unix path has no prefix, so ret starts empty.
normalize_path_no_absolute(s) == NormalizeComponents(<<>>, Components(s))

\* Lines 81-102.
normalize(s) ==
  LET p == normalize_path_no_absolute(s) IN
    IF p = <<>> /\ s = <<".", ".">> THEN <<".", ".">>
    ELSE IF p = <<>> /\ s = <<".">> THEN <<".">>
    ELSE IF (EndsWith(s, "/") \/ EndsWith(s, "\\"))
              /\ (~EndsWith(p, "/") \/ ~EndsWith(p, "\\"))
         THEN Append(p, MainSeparator)
         ELSE p

\* The icon command is not running.
IconIdle ==
  /\ options = [input |-> None, output |-> IconsDir, png |-> None,
                ios_color |-> DefaultIosColor]
  /\ icns_table = IcnsTable
  /\ start = [dirs |-> {}, files |-> <<>>]
  /\ phase = 1
  /\ first = None
  /\ lookups = <<>>
  /\ pc = "idle"
  /\ idx = 0
  /\ result = "running"
  /\ context = <<>>
  /\ ios_color = None
  /\ source = None
  /\ image = None
  /\ entries = <<>>
  /\ todo = {}
  /\ family = <<>>
  /\ frames = <<>>
  /\ android_out = None
  /\ ios_out = None
  /\ dirs = {}
  /\ files = <<>>
  /\ writes = <<>>
  /\ mkdirs = <<>>

iconv == <<options, icns_table, start, phase, first, lookups, ctl, loc, fsv, hist>>

InitPath ==
  /\ IconIdle
  /\ HttpIdle
  /\ normalize_arg \in PathStrings
  /\ normalize_ret = None

\* The command Normalize { path }.
NormalizeCall ==
  /\ normalize_ret = None
  /\ normalize_ret' = Some(normalize(normalize_arg))
  /\ UNCHANGED <<normalize_arg, iconv, httpv>>

NextPath == NormalizeCall

SpecPath == InitPath /\ [][NextPath]_vars

\* ------------------------------------------------------------ http endpoint
\* The largest ClientId rand::random hands back (a u32 in the program).
MaxClientId == 2

\* How many clients are built in one run.
MaxClients == 3

ClientIds == 0..MaxClientId

\* HashMap::insert: the value stored under the key before is replaced.
StoreInsert(st, id, client) ==
  [i \in DOMAIN st \union {id} |-> IF i = id THEN client ELSE st[i]]

\* HashMap::remove: nothing happens when the key is not there.
StoreRemove(st, id) == [i \in DOMAIN st \ {id} |-> st[i]]

InitHttp ==
  /\ IconIdle
  /\ PathIdle
  /\ HttpIdle

\* Lines 46-55: the client is built (which can fail and then leaves through
\* `?`), the store is locked, an id is drawn at random and the client is
\* inserted under it.
CreateClient ==
  /\ built < MaxClients
  /\ \E ok \in BOOLEAN :
       IF ok
       THEN \E id \in ClientIds :
              /\ built' = built + 1
              /\ store' = StoreInsert(store, id, built + 1)
              /\ issued' = issued \union {[id |-> id, client |-> built + 1]}
              /\ reply' = Some([cmd |-> "create_client", id |-> id, result |-> "Ok"])
       ELSE /\ reply' = Some([cmd |-> "create_client", id |-> 0, result |-> "Err"])
            /\ UNCHANGED <<store, built, issued>>
  /\ UNCHANGED <<requests, iconv, pathv>>

\* Lines 58-65: the store is locked and the id removed.
DropClient ==
  /\ \E id \in ClientIds :
       /\ store' = StoreRemove(store, id)
       /\ issued' = { r \in issued : r.id # id }
       /\ reply' = Some([cmd |-> "drop_client", id |-> id, result |-> "Ok"])
  /\ UNCHANGED <<built, requests, iconv, pathv>>

\* Lines 68-78: the store is locked, the client looked up and cloned, and the
\* lock released; an id that is not in the store ends the command with
\* HttpClientNotInitialized.
HttpRequest ==
  /\ \E id \in ClientIds :
       IF id \in DOMAIN store
       THEN /\ requests' = requests \union {[id |-> id, client |-> store[id]]}
            /\ UNCHANGED reply
       ELSE /\ reply' = Some([cmd |-> "http_request", id |-> id,
                              result |-> "HttpClientNotInitialized"])
            /\ UNCHANGED requests
  /\ UNCHANGED <<store, built, issued, iconv, pathv>>

\* Lines 79-80: the request sent with the cloned client comes back, with a
\* response or with an error.
HttpResponse ==
  /\ \E r \in requests, res \in {"Ok", "Err"} :
       /\ requests' = requests \ {r}
       /\ reply' = Some([cmd |-> "http_request", id |-> r.id, result |-> res])
  /\ UNCHANGED <<store, built, issued, iconv, pathv>>

NextHttp ==
  \/ CreateClient
  \/ DropClient
  \/ HttpRequest
  \/ HttpResponse

SpecHttp == InitHttp /\ [][NextHttp]_vars

\* ------------------------------------------------------------------ claims
\* The files the run made: everything that was not there before it.
Artifacts == { p \in DOMAIN files : files[p].fmt # "other" }

FullMode == png_icon_sizes = <<>>
CustomMode == png_icon_sizes # <<>>

\* C1: in a finished icon.ico the 256-pixel layer is a compressed
\* (PNG-encoded) frame and every other layer is an uncompressed bitmap frame.
C1_OnlyLargestLayerCompressed ==
  \A p \in DOMAIN files :
    (files[p].fmt = "ico" /\ files[p].complete) =>
      \A i \in 1..Len(files[p].body) :
        files[p].body[i].encoding = (IF files[p].body[i].w = 256 THEN "png" ELSE "bmp")

\* C2: with a source that is not square no file is ever created, in full
\* mode or in custom mode, and the run ends in the panic (or in an error
\* that came before the source was looked at).
C2_NonSquareWritesNothing ==
  (IsSome(options.input) /\ Unwrap(options.input).w # Unwrap(options.input).h) =>
    /\ writes = <<>>
    /\ Artifacts = {}
    /\ pc = "done" => result \in {"Panic", "Err"}
    /\ (pc = "done" /\ IsSome(source)) => result = "Panic"

\* C2, witness: a run in custom mode on a source that is not square has
\* created its output directory, opened the source and panicked.
C2_Witness ==
  /\ pc = "done"
  /\ result = "Panic"
  /\ IsSome(source)
  /\ Unwrap(source).w # Unwrap(source).h
  /\ CustomMode
  /\ out_dir \in dirs

\* C3: in custom mode the files written are N x N.png at the output root for
\* the requested sizes, in the order requested, each the source resampled to
\* N; no directory below the output root is made and nothing else is
\* written; the run returns Ok exactly when every requested size was written.
C3_CustomModeWritesOnlyRequestedSizes ==
  CustomMode =>
    /\ Len(writes) <= Len(png_icon_sizes)
    /\ \A i \in 1..Len(writes) :
         /\ writes[i].path = Join(out_dir, <<SquareName(png_icon_sizes[i])>>)
         /\ i < Len(writes) => writes[i].outcome = "ok"
    /\ \A p \in Artifacts :
         /\ \E i \in 1..Len(writes) : writes[i].path = p
         /\ files[p].fmt = "png"
         /\ \E i \in 1..Len(png_icon_sizes) :
              /\ p = Join(out_dir, <<SquareName(png_icon_sizes[i])>>)
              /\ files[p].body = <<ResizeExact(Unwrap(source), png_icon_sizes[i])>>
    /\ \A i \in 1..Len(mkdirs) : mkdirs[i].path = out_dir
    /\ result = "Ok" =>
         /\ Len(writes) = Len(png_icon_sizes)
         /\ \A i \in 1..Len(writes) : writes[i].outcome = "ok"
         /\ Artifacts = { Join(out_dir, <<SquareName(png_icon_sizes[i])>>) :
                            i \in 1..Len(png_icon_sizes) }
         /\ \A p \in Artifacts : files[p].complete
         /\ png_icon_sizes = <<16, 64>> =>
              /\ writes[1].path = Join(out_dir, <<"16x16.png">>)
              /\ writes[2].path = Join(out_dir, <<"64x64.png">>)
              /\ Artifacts = {Join(out_dir, <<"16x16.png">>), Join(out_dir, <<"64x64.png">>)}

\* C3, witness: the sizes 16, 64 were requested on a square source and the
\* run returned Ok.
C3_Witness ==
  /\ result = "Ok"
  /\ png_icon_sizes = <<16, 64>>
  /\ Len(writes) = 2

\* The finished icon.icns files.
IcnsFiles == { p \in DOMAIN files : files[p].fmt = "icns" /\ files[p].complete }

\* C4, as claimed: a finished icon.icns holds exactly one element per entry
\* of the size table, each tagged with the entry's OSType code and holding
\* the source resampled to the entry's size.
C4_ExactlyOneElementPerEntry ==
  \A p \in IcnsFiles :
    /\ Len(files[p].body) = Cardinality(DOMAIN IcnsTable)
    /\ \A name \in DOMAIN IcnsTable :
         \E i \in 1..Len(files[p].body) :
           /\ files[p].body[i].ostype = IcnsTable[name].ostype
           /\ files[p].body[i].image = ResizeExact(Unwrap(source), IcnsTable[name].size)

\* The mask element that follows an element of a 24-bit type.
C4_MaskOf(ostype) ==
  IF ostype = "is32" THEN "s8mk" ELSE IF ostype = "il32" THEN "l8mk" ELSE "none"

\* C4, amended: for every entry of the size table, in whatever order the
\* table is iterated, a finished icon.icns holds exactly one element tagged
\* with the entry's OSType code, and it holds the source resampled to the
\* entry's size; every other element of the file is the mask element of the
\* entry whose element stands right before it.
C4_OneTaggedElementPerEntry ==
  \A p \in IcnsFiles :
    LET body == files[p].body IN
      /\ \A name \in DOMAIN IcnsTable :
           /\ Cardinality({ i \in 1..Len(body) : body[i].ostype = IcnsTable[name].ostype }) = 1
           /\ \A i \in 1..Len(body) :
                body[i].ostype = IcnsTable[name].ostype =>
                  body[i].image = ResizeExact(Unwrap(source), IcnsTable[name].size)
      /\ \A i \in 1..Len(body) :
           \/ \E name \in DOMAIN IcnsTable : body[i].ostype = IcnsTable[name].ostype
           \/ /\ i > 1
              /\ body[i].ostype = C4_MaskOf(body[i - 1].ostype)
              /\ body[i].image = body[i - 1].image
      /\ Len(body) =
           Cardinality(DOMAIN IcnsTable)
             + Cardinality({ name \in DOMAIN IcnsTable :
                              C4_MaskOf(IcnsTable[name].ostype) # "none" })

\* C4, witness: icon.icns is finished and the table was iterated with the
\* 128-pixel entry first.
C4_Witness ==
  \E p \in IcnsFiles :
    /\ files[p].body[1].ostype = "ic07"
    /\ Len(files[p].body) > Cardinality(DOMAIN IcnsTable)

\* The names of the density directories and of the files of each.
C5_Densities == {"mipmap-hdpi", "mipmap-mdpi", "mipmap-xhdpi", "mipmap-xxhdpi", "mipmap-xxxhdpi"}
C5_FileNames == {"ic_launcher.png", "ic_launcher_round.png", "ic_launcher_foreground.png"}

\* The edge length of a written PNG.
PngSizeOf(path) == files[path].body[1].w

\* C5: once android_entries has returned, exactly the five density
\* directories have been created under the resolved Android root; when the
\* run has returned Ok each of them holds exactly the three launcher files,
\* the foreground larger than the launcher and round files, which have the
\* same size.
C5_AndroidDensityBuckets ==
  /\ (FullMode /\ pc \in {"png_ios_root", "png_write", "png_composite", "png_ios_write", "return_ok"}) =>
       LET root == Unwrap(android_out) IN
         /\ { mkdirs[i].path : i \in { j \in 1..Len(mkdirs) :
                                        Parent(mkdirs[j].path) = Some(root) } }
              = { Join(root, <<d>>) : d \in C5_Densities }
         /\ \A d \in C5_Densities : IsDir(Join(root, <<d>>))
         /\ Len(entries) = Len(desktop_entries(out_dir)) + 3 * Cardinality(C5_Densities)
  /\ (FullMode /\ result = "Ok") =>
       LET root == Unwrap(android_out) IN
         /\ Cardinality({ q \in dirs : Parent(q) = Some(root) }) = 5
         /\ \A d \in C5_Densities :
              /\ { p \in Artifacts : Parent(p) = Some(Join(root, <<d>>)) }
                   = { Join(root, <<d, f>>) : f \in C5_FileNames }
              /\ PngSizeOf(Join(root, <<d, "ic_launcher_foreground.png">>))
                   > PngSizeOf(Join(root, <<d, "ic_launcher.png">>))
              /\ PngSizeOf(Join(root, <<d, "ic_launcher.png">>))
                   = PngSizeOf(Join(root, <<d, "ic_launcher_round.png">>))
         /\ \A p \in Artifacts :
              (Len(p) > Len(root) /\ SubSeq(p, 1, Len(root)) = root) =>
                \E d \in C5_Densities, f \in C5_FileNames : p = Join(root, <<d, f>>)

\* C5, witness: a full run returned Ok with the Android files under the
\* generated project directory.
C5_Witness ==
  /\ FullMode
  /\ result = "Ok"
  /\ android_out = Some(AndroidGenDir(ProjectDir))
  /\ Join(AndroidGenDir(ProjectDir), <<"mipmap-hdpi", "ic_launcher_foreground.png">>) \in Artifacts

\* C6: the composite has the dimensions of the source, shows the background
\* colour wherever the source is fully transparent and the source wherever
\* it is fully opaque, and every iOS file is resampled from it; for a fully
\* transparent source and the colour #FF0000 every pixel of the composite is
\* (255, 0, 0) with alpha 255.
C6_CompositeOverBackground ==
  IsSome(image) =>
    LET img == Unwrap(image)
        src == Unwrap(source)
    IN /\ img.w = src.w
       /\ img.h = src.h
       /\ DOMAIN img.px = DOMAIN src.px
       /\ \A c \in DOMAIN src.px :
            /\ src.px[c].a = 0 => img.px[c] = Unwrap(ios_color)
            /\ src.px[c].a = 255 => img.px[c] = src.px[c]
       /\ \A i \in 1..Len(writes) :
            (writes[i].stage = "ios" /\ writes[i].outcome # "create_err") =>
              files[writes[i].path].body[1].of = img
       /\ (options.ios_color = <<"#", "F", "F", "0", "0", "0", "0">>
             /\ \A c \in DOMAIN src.px : src.px[c].a = 0) =>
            \A c \in DOMAIN img.px : img.px[c] = [r |-> 255, g |-> 0, b |-> 0, a |-> 255]

\* C6, witness: a full run on a fully transparent 2 x 2 source with the
\* colour #FF0000 has written every iOS file.
C6_Witness ==
  /\ result = "Ok"
  /\ FullMode
  /\ IsSome(image)
  /\ Unwrap(source).w = 2
  /\ \A c \in DOMAIN Unwrap(source).px : Unwrap(source).px[c].a = 0
  /\ options.ios_color = <<"#", "F", "F", "0", "0", "0", "0">>
  /\ \E i \in 1..Len(writes) : writes[i].stage = "ios" /\ writes[i].outcome = "ok"

\* The number of files a full run writes: Appx, icon.icns, icon.ico, desktop,
\* Android, iOS.
C7_FullTargets == <<10, 1, 1, 4, 15, 18>>

\* C7: once the stages have begun, a run that ends has returned Ok or an
\* error; nothing is attempted after a failed write, what was written stays
\* in place (unless the same path is written again), and Ok means that every
\* target was written.
C7_AbortsWithErrorAtFirstFailure ==
  /\ (pc = "done" /\ IsSome(source) /\ Unwrap(source).w = Unwrap(source).h) =>
       result \in {"Ok", "Err"}
  /\ \A i \in 1..Len(writes) :
       /\ i < Len(writes) => writes[i].outcome = "ok"
       /\ writes[i].outcome = "ok" =>
            /\ writes[i].path \in Artifacts
            /\ \/ files[writes[i].path].complete
               \/ \E j \in (i + 1)..Len(writes) : writes[j].path = writes[i].path
       /\ writes[i].outcome # "ok" => (pc = "done" /\ result # "Ok")
  /\ result = "Ok" =>
       Len(writes) =
         IF FullMode
         THEN C7_FullTargets[1] + C7_FullTargets[2] + C7_FullTargets[3]
                + C7_FullTargets[4] + C7_FullTargets[5] + C7_FullTargets[6]
         ELSE Len(png_icon_sizes)

\* The stage of the i-th write, by what was written and where: 1 Appx,
\* 2 ICNS, 3 ICO, 4 desktop, 5 Android, 6 iOS.
C8_Rank(i) ==
  CASE writes[i].stage = "appx" -> 1
    [] writes[i].stage = "icns" -> 2
    [] writes[i].stage = "ico" -> 3
    [] writes[i].stage = "ios" -> 6
    [] OTHER -> IF Parent(writes[i].path) = Some(out_dir) THEN 4 ELSE 5

\* C8: in full mode the writes come in the order Appx, ICNS, ICO, desktop,
\* Android, iOS (no write is of an earlier stage than the write before it),
\* and when a stage writes its first file, every earlier stage has written
\* all of its files.
C8_StagesInOrder ==
  FullMode =>
    \A j \in 1..Len(writes) :
      /\ j > 1 => C8_Rank(j - 1) <= C8_Rank(j)
      /\ (j = 1 \/ C8_Rank(j - 1) < C8_Rank(j)) =>
           \A r \in 1..(C8_Rank(j) - 1) :
             Cardinality({ i \in 1..(j - 1) : C8_Rank(i) = r /\ writes[i].outcome = "ok" })
               = C7_FullTargets[r]
      /\ C8_Rank(j) = 1 => Parent(writes[j].path) = Some(out_dir)
      /\ C8_Rank(j) = 2 => writes[j].path = Join(out_dir, <<"icon.icns">>)
      /\ C8_Rank(j) = 3 => writes[j].path = Join(out_dir, <<"icon.ico">>)
      /\ C8_Rank(j) = 5 =>
           SubSeq(writes[j].path, 1, Len(Unwrap(android_out))) = Unwrap(android_out)
      /\ C8_Rank(j) = 6 => Parent(writes[j].path) = ios_out

\* C8, witness: a full run has written files of all six stages and returned.
C8_Witness ==
  /\ FullMode
  /\ result = "Ok"
  /\ \A r \in 1..6 : \E i \in 1..Len(writes) : C8_Rank(i) = r

\* C9: each platform's root is the generated directory when that directory
\* exists and else the subdirectory of the output root, created before use;
\* with the generated directory there, the subdirectory is not made and
\* nothing is written under it; every write goes to a directory that exists.
C9_PlatformRootsResolved ==
  /\ IsSome(android_out) =>
       LET gen == AndroidGenDir(Unwrap(Parent(out_dir)))
           fallback == Join(out_dir, <<"android">>)
       IN /\ android_out = Some(IF IsDir(gen) THEN gen ELSE fallback)
          /\ IsDir(Unwrap(android_out))
          /\ IsDir(gen) =>
               /\ ~Exists(fallback)
               /\ \A i \in 1..Len(writes) :
                    SubSeq(writes[i].path, 1, Len(fallback)) # fallback
  /\ IsSome(ios_out) =>
       LET gen == IosGenDir(Unwrap(Parent(out_dir)))
           fallback == Join(out_dir, <<"ios">>)
       IN /\ ios_out = Some(IF IsDir(gen) THEN gen ELSE fallback)
          /\ IsDir(Unwrap(ios_out))
          /\ IsDir(gen) =>
               /\ ~Exists(fallback)
               /\ \A i \in 1..Len(writes) : Parent(writes[i].path) # Some(fallback)
  /\ \A i \in 1..Len(writes) : writes[i].parent_is_dir

\* The iOS files and their edge lengths, point size times multiplier.
C10_Expected ==
  << <<"AppIcon-20x20@2x-1.png", 40>>, <<"AppIcon-20x20@1x.png", 20>>,
     <<"AppIcon-20x20@2x.png", 40>>, <<"AppIcon-20x20@3x.png", 60>>,
     <<"AppIcon-29x29@2x-1.png", 58>>, <<"AppIcon-29x29@1x.png", 29>>,
     <<"AppIcon-29x29@2x.png", 58>>, <<"AppIcon-29x29@3x.png", 87>>,
     <<"AppIcon-40x40@2x-1.png", 80>>, <<"AppIcon-40x40@1x.png", 40>>,
     <<"AppIcon-40x40@2x.png", 80>>, <<"AppIcon-40x40@3x.png", 120>>,
     <<"AppIcon-60x60@2x.png", 120>>, <<"AppIcon-60x60@3x.png", 180>>,
     <<"AppIcon-76x76@1x.png", 76>>, <<"AppIcon-76x76@2x.png", 152>>,
     <<"AppIcon-83.5x83.5@2x.png", 167>>,
     <<"AppIcon-512@2x.png", 1024>> >>

\* The iOS writes of the run, in order.
C10_IosWrites == SelectSeq(writes, LAMBDA w : w.stage = "ios")

\* C10: the iOS files are written with the truncation of point size times
\* multiplier as their edge length, 167 for 83.5pt at 2x, and the point sizes
\* 20, 29 and 40 have one more file, -1, of the size of their @2x file.
C10_IosPixelSizes ==
  /\ \A k \in 1..Len(IosTargets) :
       \A m \in 1..Len(IosTargets[k].multipliers) :
         LET mult == IosTargets[k].multipliers[m]
             size == IosPixelSize(IosTargets[k].size2, mult)
         IN /\ 2 * size <= IosTargets[k].size2 * mult
            /\ IosTargets[k].size2 * mult < 2 * (size + 1)
  /\ Len(C10_IosWrites) <= Len(C10_Expected)
  /\ \A k \in 1..Len(C10_IosWrites) :
       /\ C10_IosWrites[k].path = Join(Unwrap(ios_out), <<C10_Expected[k][1]>>)
       /\ C10_IosWrites[k].outcome # "create_err" =>
            PngSizeOf(C10_IosWrites[k].path) = C10_Expected[k][2]
  /\ (FullMode /\ result = "Ok") => Len(C10_IosWrites) = Len(C10_Expected)

\* C10, witness: a full run has written the 83.5pt file at 167 pixels and
\* every other iOS file.
C10_Witness ==
  /\ FullMode
  /\ result = "Ok"
  /\ Join(Unwrap(ios_out), <<"AppIcon-83.5x83.5@2x.png">>) \in Artifacts
  /\ PngSizeOf(Join(Unwrap(ios_out), <<"AppIcon-83.5x83.5@2x.png">>)) = 167
  /\ Join(Unwrap(ios_out), <<"AppIcon-29x29@2x-1.png">>) \in Artifacts

\* The images the content of an artifact was resampled from.
C11_ResampledFrom(p) ==
  IF files[p].fmt = "png" THEN { files[p].body[i].of : i \in 1..Len(files[p].body) }
  ELSE { files[p].body[i].image.of : i \in 1..Len(files[p].body) }

\* C11: every Appx, ICNS, ICO, desktop and Android artifact (and every
\* artifact of custom mode) is resampled from the source as it was decoded,
\* every iOS artifact is resampled from the composite of that source over the
\* parsed colour, and the source held by the run stays the decoded input
\* after the composite was built.
C11_CompositorOnlyForIos ==
  /\ IsSome(source) => source = options.input
  /\ IsSome(image) => image = Some(Composite(Unwrap(options.input), Unwrap(ios_color)))
  /\ \A i \in 1..Len(writes) :
       writes[i].outcome # "create_err" =>
         /\ C11_ResampledFrom(writes[i].path) # {}
         /\ C11_ResampledFrom(writes[i].path) =
              (IF writes[i].stage = "ios"
               THEN {Composite(Unwrap(options.input), Unwrap(ios_color))}
               ELSE {Unwrap(options.input)})

\* C11, witness: a full run returned Ok on a source with a transparent
\* pixel, so that the composite differs from the source, and both kinds of
\* artifact are on disk.
C11_Witness ==
  /\ FullMode
  /\ result = "Ok"
  /\ IsSome(image)
  /\ Unwrap(image) # Unwrap(source)
  /\ \E i, j \in 1..Len(writes) :
       /\ writes[i].stage = "ios" /\ writes[i].outcome = "ok"
       /\ writes[j].stage = "appx" /\ writes[j].outcome = "ok"

\* C12, as stated: every buffered writer that was opened is flushed by a call
\* of flush after the write and before it is released, on every path that
\* releases it.
C12_FlushedOnEveryPath ==
  \A i \in 1..Len(writes) :
    writes[i].handle # <<>> => writes[i].handle = <<"write", "flush", "drop">>

\* C12, amended: whenever the data was written without error, flush is
\* called after the write and before the writer is released; a writer whose
\* write failed is released without a call of flush, and then the run
\* fails; a run that returned Ok called flush on every file it opened, and
\* every flush succeeded.
C12_FlushedAfterSuccessfulWrite ==
  /\ \A i \in 1..Len(writes) :
       /\ writes[i].outcome \in {"ok", "flush_err"} <=>
            writes[i].handle = <<"write", "flush", "drop">>
       /\ writes[i].outcome = "write_err" <=> writes[i].handle = <<"write", "drop">>
       /\ writes[i].outcome = "create_err" <=> writes[i].handle = <<>>
       /\ writes[i].outcome # "ok" => (i = Len(writes) /\ result = "Err")
  /\ result = "Ok" =>
       \A i \in 1..Len(writes) :
         writes[i].outcome = "ok" /\ writes[i].handle = <<"write", "flush", "drop">>

\* C12, witness: icon.icns was written and flushed, and a later file's write
\* failed.
C12_Witness ==
  \E i, j \in 1..Len(writes) :
    /\ i < j
    /\ writes[i].stage = "icns" /\ writes[i].handle = <<"write", "flush", "drop">>
    /\ writes[j].outcome = "write_err"

\* The entries of the table whose code does not parse or names no icon type.
C13_BadEntries ==
  { name \in DOMAIN icns_table :
      \/ ~IsSome(ParseOstype(icns_table[name].ostype))
      \/ icns_table[name].ostype \notin DOMAIN IconTypes }

\* C13: when an entry of the table has a code that is unknown or does not
\* parse, a full run never creates icon.icns (whole or with elements
\* missing), never skips the entry, never reaches the ICO or PNG stage, and
\* ends in a panic once icns() has started; only Appx files are written.
C13_BadOstypeIsFatal ==
  (FullMode /\ C13_BadEntries # {}) =>
    /\ \A p \in DOMAIN files : files[p].fmt \notin {"icns", "ico"}
    /\ \A i \in 1..Len(writes) : writes[i].stage = "appx"
    /\ pc \in {"parse_color", "create_out_dir", "open", "check_square", "appx",
               "icns", "icns_add", "done"}
    /\ frames = <<>> /\ entries = <<>>
    /\ pc = "icns_add" => C13_BadEntries \subseteq todo
    /\ (pc = "done" /\ todo # {}) => (result = "Panic" /\ C13_BadEntries \subseteq todo)
    /\ result # "Ok"

\* C13, witness: with a bad entry in the table a full run wrote the ten Appx
\* files, added the element of a good entry and then ended in the panic.
C13_Witness ==
  /\ FullMode
  /\ C13_BadEntries # {}
  /\ result = "Panic"
  /\ family # <<>>
  /\ Len(writes) = 10

\* The artifacts of a run that its iOS loop did not write, with their content.
C14_NonIosArtifacts(fs, ws) ==
  LET ios == { ws[i].path : i \in { j \in 1..Len(ws) : ws[j].stage = "ios" } }
      made == { p \in DOMAIN fs : fs[p].fmt # "other" /\ p \notin ios }
  IN [p \in made |-> fs[p]]

\* The two finished runs agree on everything but the iOS files: in custom
\* mode on the result, the error and all files and writes, in full mode on
\* every artifact that is not an iOS file.
C14_SameButIos ==
  LET f == Unwrap(first) IN
    /\ CustomMode =>
         /\ result = f.result
         /\ context = f.context
         /\ files = f.files
         /\ writes = f.writes
    /\ FullMode =>
         C14_NonIosArtifacts(files, writes) = C14_NonIosArtifacts(f.files, f.writes)

\* C14, as stated: two runs that differ only in the colour string agree on
\* the outcome of custom mode and on every non-iOS artifact of full mode.
C14_ColorReachesOnlyIos ==
  (phase = 2 /\ pc = "done") => C14_SameButIos

\* C14, amended: two runs that differ only in the colour string, both of
\* which parse, agree on the outcome of custom mode and on every non-iOS
\* artifact of full mode; a colour string that does not parse ends the run
\* with an error before anything is created, in either mode.
C14_ParsedColorReachesOnlyIos ==
  /\ (phase = 2 /\ pc = "done"
        /\ IsSome(ParseIosColor(options.ios_color))
        /\ IsSome(ParseIosColor(Unwrap(first).options.ios_color))) => C14_SameButIos
  /\ (pc # "parse_color" /\ ~IsSome(ParseIosColor(options.ios_color))) =>
       /\ pc = "done"
       /\ result = "Err"
       /\ context = <<"failed to parse iOS color">>
       /\ writes = <<>>
       /\ mkdirs = <<>>
       /\ files = start.files
       /\ dirs = start.dirs

\* C14, witness: two full runs with two colours that parse both returned Ok,
\* and an iOS file of the second differs from that of the first.
C14_Witness ==
  /\ phase = 2
  /\ pc = "done"
  /\ FullMode
  /\ result = "Ok"
  /\ Unwrap(first).result = "Ok"
  /\ IsSome(ParseIosColor(Unwrap(first).options.ios_color))
  /\ \E p \in DOMAIN files : files[p] # Unwrap(first).files[p]

\* C15: normalize("..") returns "..", and normalize("") and normalize(".")
\* both return ".".
C15_DotsAndEmpty ==
  IsSome(normalize_ret) =>
    /\ normalize_arg = <<".", ".">> => Unwrap(normalize_ret) = <<".", ".">>
    /\ normalize_arg = <<".">> => Unwrap(normalize_ret) = <<".">>
    /\ normalize_arg = <<>> => Unwrap(normalize_ret) = <<".">>

\* C16: normalize appends a trailing separator only when its argument ends
\* with a separator and the normalized path does not end with one already,
\* so that what it returns never ends with two separators in a row ("/"
\* comes back as "/").
C16_NoDoubleTrailingSeparator ==
  IsSome(normalize_ret) =>
    LET r == Unwrap(normalize_ret)
        p == normalize_path_no_absolute(normalize_arg)
    IN /\ ~(Len(r) >= 2 /\ r[Len(r)] = MainSeparator /\ r[Len(r) - 1] = MainSeparator)
       /\ normalize_arg = <<MainSeparator>> => r = <<MainSeparator>>
       /\ (r # p /\ p # <<>>) =>
            /\ r = Append(p, MainSeparator)
            /\ EndsWith(normalize_arg, "/") \/ EndsWith(normalize_arg, "\\")
            /\ ~EndsWith(p, "/") /\ ~EndsWith(p, "\\")

\* C17: whatever the order of create_client, drop_client and http_request,
\* every id that create_client returned and that was not dropped since is in
\* the store and maps to the client that call created (so no create_client
\* took an id that was in use), and an http_request that ended with
\* HttpClientNotInitialized named an id that is not in the store.
C17_LiveIdsKeepTheirClient ==
  /\ \A r \in issued : r.id \in DOMAIN store /\ store[r.id] = r.client
  /\ (IsSome(reply) /\ Unwrap(reply).result = "HttpClientNotInitialized") =>
       Unwrap(reply).id \notin DOMAIN store
====
